---- MODULE Spec2Model ----
(***************************************************************************)
(* State-machine model of api/index.py: the phase-based chat endpoint      *)
(* (session store, crisis gate, diagnosis formulator, conclusion flag).    *)
(* Python strings are TLA+ strings; the string methods the handlers use    *)
(* (lower, strip, splitlines, startswith, split, int) are computed         *)
(* character by character.                                                 *)
(***************************************************************************)
EXTENDS Integers, Sequences, FiniteSets, TLC

VARIABLES sessions, heap, req, accepted, diagnosed, failures

vars == <<sessions, heap, req, accepted, diagnosed, failures>>

(***************************************************************************)
(* Bounds of the model.                                                    *)
(***************************************************************************)
\* accepted chat calls between two clears, all ids together (one request at a time)
MaxChats == 6
\* accepted chat calls between two clears, all ids together (overlapping requests)
MaxOverlapChats == 4
\* accepted chat calls of the one session whose summary answers vary
MaxDiagnoseChats == 3
\* accepted chat calls while the message texts vary
MaxDetectChats == 1
\* backend failures in one behaviour
MaxFailures == 1

(***************************************************************************)
(* Python string methods.                                                  *)
(***************************************************************************)
UpperCase == "ABCDEFGHIJKLMNOPQRSTUVWXYZ"
LowerCase == "abcdefghijklmnopqrstuvwxyz"
Digits == "0123456789"
Whitespace == {" ", "\n", "\t", "\r"}

CharAt(s, i) == SubSeq(s, i, i)

\* the characters of a string, as a set
CharSet(s) == {CharAt(s, i) : i \in 1..Len(s)}

\* str.lower() and str.upper() on the letters
ToLower ==
    [c \in CharSet(UpperCase) |->
        CharAt(LowerCase, CHOOSE i \in 1..Len(UpperCase) : CharAt(UpperCase, i) = c)]
ToUpper ==
    [c \in CharSet(LowerCase) |->
        CharAt(UpperCase, CHOOSE i \in 1..Len(LowerCase) : CharAt(LowerCase, i) = c)]
DigitValue ==
    [c \in CharSet(Digits) |-> (CHOOSE i \in 1..Len(Digits) : CharAt(Digits, i) = c) - 1]

LowerChar(c) == IF c \in DOMAIN ToLower THEN ToLower[c] ELSE c

\* str.lower() on the characters lo..hi of s
RECURSIVE LowerRange(_, _, _)
LowerRange(s, lo, hi) ==
    IF lo > hi THEN ""
    ELSE IF lo = hi THEN LowerChar(CharAt(s, lo))
    ELSE LowerRange(s, lo, (lo + hi) \div 2) \o LowerRange(s, (lo + hi) \div 2 + 1, hi)

lower(s) == LowerRange(s, 1, Len(s))

\* str.capitalize(): first character upper-cased, the rest lower-cased
UpperChar(c) == IF c \in DOMAIN ToUpper THEN ToUpper[c] ELSE c

capitalize(s) == IF s = "" THEN "" ELSE UpperChar(Head(s)) \o lower(Tail(s))

\* `k in s`
Contains(s, k) ==
    \E i \in 1..(Len(s) - Len(k) + 1) : SubSeq(s, i, i + Len(k) - 1) = k

\* the one element of a singleton (binds a value that is then computed once)
The(S) == CHOOSE x \in S : TRUE

Least(S) == CHOOSE i \in S : \A j \in S : i <= j

\* s.find(k) + 1: the first place k occurs in s, 0 if none
Find(s, k) ==
    The({IF hits = {} THEN 0 ELSE Least(hits) :
            hits \in {{i \in 1..(Len(s) - Len(k) + 1) : SubSeq(s, i, i + Len(k) - 1) = k}}})

startswith(s, p) == Len(s) >= Len(p) /\ SubSeq(s, 1, Len(p)) = p

\* s.lstrip(chars), s.rstrip(chars), s.strip(chars)
RECURSIVE lstripChars(_, _)
lstripChars(s, cs) ==
    IF s # "" /\ Head(s) \in cs THEN lstripChars(Tail(s), cs) ELSE s

RECURSIVE rstripChars(_, _)
rstripChars(s, cs) ==
    IF s # "" /\ CharAt(s, Len(s)) \in cs
    THEN rstripChars(SubSeq(s, 1, Len(s) - 1), cs)
    ELSE s

stripChars(s, cs) == rstripChars(lstripChars(s, cs), cs)

\* s.strip()
strip(s) == stripChars(s, Whitespace)

\* s.split(c) for a one-character separator
RECURSIVE SplitChar(_, _)
SplitAt(s, c, i) ==
    IF i = 0 THEN <<s>>
    ELSE <<SubSeq(s, 1, i - 1)>> \o SplitChar(SubSeq(s, i + 1, Len(s)), c)
SplitChar(s, c) == The({SplitAt(s, c, i) : i \in {Find(s, c)}})

\* s.splitlines() (line breaks are "\n"): no empty last line
DropEmptyLast(parts) ==
    IF parts[Len(parts)] = "" THEN SubSeq(parts, 1, Len(parts) - 1) ELSE parts
splitlines(s) == The({DropEmptyLast(parts) : parts \in {SplitChar(s, "\n")}})

\* s.split(sep)[-1]: what follows the last separator of a left-to-right split
RECURSIVE SplitLast(_, _)
AfterLast(s, sep, i) ==
    IF i = 0 THEN s ELSE SplitLast(SubSeq(s, i + Len(sep), Len(s)), sep)
SplitLast(s, sep) == The({AfterLast(s, sep, i) : i \in {Find(s, sep)}})

\* s.replace(c, "") for a one-character c, on the characters lo..hi of s
RECURSIVE RemoveRange(_, _, _, _)
RemoveRange(s, c, lo, hi) ==
    IF lo > hi THEN ""
    ELSE IF lo = hi THEN (IF CharAt(s, lo) = c THEN "" ELSE CharAt(s, lo))
    ELSE RemoveRange(s, c, lo, (lo + hi) \div 2) \o RemoveRange(s, c, (lo + hi) \div 2 + 1, hi)

RemoveChar(s, c) == RemoveRange(s, c, 1, Len(s))

\* the digits of an int() literal after strip(): optional sign, then digits
IntBody(s) ==
    LET t == strip(s)
    IN  IF t # "" /\ Head(t) \in {"+", "-"} THEN Tail(t) ELSE t

\* int(s) does not raise ValueError
IsInt(s) ==
    /\ IntBody(s) # ""
    /\ \A i \in 1..Len(IntBody(s)) : CharAt(IntBody(s), i) \in DOMAIN DigitValue

RECURSIVE DigitsValue(_, _)
DigitsValue(s, acc) ==
    IF s = "" THEN acc
    ELSE DigitsValue(Tail(s), 10 * acc + DigitValue[Head(s)])

\* int(s), for IsInt(s)
IntOf(s) ==
    LET t == strip(s)
        v == DigitsValue(IntBody(s), 0)
    IN  IF t # "" /\ Head(t) = "-" THEN 0 - v ELSE v

\* sep.join(xs)
RECURSIVE join(_, _)
join(sep, xs) ==
    IF xs = <<>> THEN ""
    ELSE IF Len(xs) = 1 THEN xs[1]
    ELSE xs[1] \o sep \o join(sep, Tail(xs))

\* [f(x) for x in xs if P(x)] helpers
RECURSIVE SelectStarts(_, _)
SelectStarts(xs, p) ==
    IF xs = <<>> THEN <<>>
    ELSE (IF startswith(Head(xs), p) THEN <<Head(xs)>> ELSE <<>>) \o SelectStarts(Tail(xs), p)

(***************************************************************************)
(* Data models.                                                            *)
(***************************************************************************)
TherapyPlan == [strategies |-> <<>>]

\* Session.__init__; diagnosis None is <<>>, a Diagnosis object d is <<d>>
Session(user_id) ==
    [user_id |-> user_id, messages |-> <<>>, diagnosis |-> <<>>,
     therapy_plan |-> TherapyPlan, completed |-> FALSE]

\* Diagnosis.__init__: `emotions or []`, `conditions or []`
Diagnosis(emotions, conditions, severity, confidence) ==
    [emotions |-> emotions, conditions |-> conditions,
     severity |-> severity, confidence |-> confidence]

(***************************************************************************)
(* Program constants.                                                      *)
(***************************************************************************)
DiagnosisThreshold == 5
ConclusionThreshold == 10
DefaultSeverity == 3
DefaultConfidence == 80
DefaultConditions == "General stress"

FallbackConnect == "I'm having trouble connecting right now. Please try again."
FallbackProcess == "I'm having trouble processing that right now. Please try again."

CrisisText ==
    "**Emergency Alert:** It sounds like you're in intense distress. "
    \o "If you feel unsafe or are in immediate danger, please call your local emergency services or crisis hotline immediately.\n\n"
    \o "Remember, you deserve help and support."

ConclusionNotice ==
    "\n\n### Session Conclusion\n"
    \o "*It seems we have covered a lot today. Would you like to explore further strategies or schedule another session?*"

risk_keywords == <<"suicide", "kill myself", "self-harm", "end it all">>

(***************************************************************************)
(* The inference backend: what one requests.post() call comes back with.   *)
(***************************************************************************)
Ok(content) == [kind |-> "ok", content |-> content]
Failed(kind) == [kind |-> kind, content |-> ""]
NoOutcome == Failed("none")

\* transport: requests.post raises; http_status: raise_for_status raises;
\* malformed: the JSON body has no choices[0].message.content string
FailureKinds == {"transport", "http_status", "malformed"}
Failures == {Failed(k) : k \in FailureKinds}

ReplyTexts == {"  I hear you.\n"}
DiagnosisTexts ==
    {"**Diagnosis Summary:**\n- **Conditions:** anxiety, stress\n- **Severity:** 4\n- **Confidence:** 70%"}
EmotionTexts == {"- **sadness**\n- **stress**"}
StrategyTexts == {"### Breathe\n- Slow breathing calms the body.\n- Keep a journal."}

\* answers to the summary prompt, field by field: the text of the field's line,
\* whether a line with the label and a usable value is there, and that value
Field(text, good, value) == [text |-> text, good |-> good, value |-> value]

ConditionsFields ==
    {Field("", FALSE, <<>>),
     Field("**Conditions:** anxiety\n", FALSE, <<>>),
     Field("- **Conditions:** \n", FALSE, <<>>),
     Field("- **Conditions:** anxiety, stress\n", TRUE, <<"anxiety", "stress">>)}
SeverityFields ==
    {Field("", FALSE, 0),
     Field("- **Severity:** high\n", FALSE, 0),
     Field("- **Severity:** 4/5\n", FALSE, 0),
     Field("- **Severity:**\n", FALSE, 0),
     Field("- **Severity:**  2 \n", TRUE, 2),
     Field("- **Severity:** 5\n- **Severity:** 1\n", TRUE, 5)}
ConfidenceFields ==
    {Field("", FALSE, 0),
     Field("- **Confidence:** about 70%\n", FALSE, 0),
     Field("- **Confidence:** 70.5%\n", FALSE, 0),
     Field("- **Confidence:** %\n", FALSE, 0),
     Field("- **Confidence:** 65%\n", TRUE, 65)}

SummaryCases ==
    [conditions : ConditionsFields, severity : SeverityFields, confidence : ConfidenceFields]

\* the text the backend sends for a case
Summary(c) ==
    "**Diagnosis Summary:**\n" \o c.conditions.text \o c.severity.text \o c.confidence.text

SummaryTexts == {Summary(c) : c \in SummaryCases}

\* faulty variant: a failed call yields no text
generate_ai_response_no_fallback(o) ==
    IF o.kind = "ok" THEN strip(o.content) ELSE ""

generate_ai_response(o) ==
    CASE o.kind = "ok" -> strip(o.content)
      [] o.kind \in {"transport", "http_status"} -> FallbackConnect
      [] OTHER -> FallbackProcess

\* faulty variant: the message is compared as it was typed
check_for_crisis_exact_case(message) ==
    \E i \in 1..Len(risk_keywords) : Contains(message, risk_keywords[i])

check_for_crisis(message) ==
    LET lowered == lower(message)
    IN  \E i \in 1..Len(risk_keywords) : Contains(lowered, risk_keywords[i])

\* [line.strip("- ").strip() for line in response.splitlines() if line.startswith("-")]
RECURSIVE StripBullets(_)
StripBullets(lines) ==
    IF lines = <<>> THEN <<>>
    ELSE <<strip(stripChars(Head(lines), {"-", " "}))>> \o StripBullets(Tail(lines))

BulletLines(response) == StripBullets(SelectStarts(splitlines(response), "-"))

\* faulty variant: no bullets, no list
OrWhole_bullets_only(bullets, response) == bullets

\* `bullets if bullets else [response.strip()]`
OrWhole(bullets, response) == IF bullets # <<>> THEN bullets ELSE <<strip(response)>>

\* classify_emotions, from the backend's answer on
classify_emotions(response) ==
    The({OrWhole(bullets, response) : bullets \in {BulletLines(response)}})

\* generate_coping_strategies, from the backend's answer on
generate_coping_strategies(response) ==
    The({OrWhole(bullets, response) : bullets \in {BulletLines(response)}})

\* [cond.strip() for cond in conditions.split(",") if cond]
RECURSIVE StripNonEmpty(_)
StripNonEmpty(xs) ==
    IF xs = <<>> THEN <<>>
    ELSE (IF Head(xs) # "" THEN <<strip(Head(xs))>> ELSE <<>>) \o StripNonEmpty(Tail(xs))

\* the label lines of diagnose: [line for line in lines if line.startswith(...)]
LabelLines(lines, label) == SelectStarts(lines, "- " \o label)

SeverityText(lines) == SplitLast(LabelLines(lines, "**Severity:**")[1], "**Severity:**")
ConfidenceText(lines) ==
    RemoveChar(strip(SplitLast(LabelLines(lines, "**Confidence:**")[1], "**Confidence:**")), "%")

\* the try block of diagnose raises (int() of a non-integer)
ParseRaises(lines) ==
    \/ LabelLines(lines, "**Severity:**") # <<>> /\ ~IsInt(SeverityText(lines))
    \/ LabelLines(lines, "**Confidence:**") # <<>> /\ ~IsInt(ConfidenceText(lines))

\* faulty variant: after a parse error the fields are Diagnosis's own defaults
ParseLines_constructor_defaults(lines) ==
    IF ParseRaises(lines)
    THEN [conditions |-> "", severity |-> 0, confidence |-> 0]
    ELSE [conditions |->
              IF LabelLines(lines, "**Conditions:**") # <<>>
              THEN strip(SplitLast(LabelLines(lines, "**Conditions:**")[1], "**Conditions:**"))
              ELSE DefaultConditions,
          severity |->
              IF LabelLines(lines, "**Severity:**") # <<>>
              THEN IntOf(SeverityText(lines)) ELSE DefaultSeverity,
          confidence |->
              IF LabelLines(lines, "**Confidence:**") # <<>>
              THEN IntOf(ConfidenceText(lines)) ELSE DefaultConfidence]

\* conditions, severity, confidence as diagnose holds them after its try/except
ParseLines(lines) ==
    IF ParseRaises(lines)
    THEN [conditions |-> DefaultConditions, severity |-> DefaultSeverity,
          confidence |-> DefaultConfidence]
    ELSE [conditions |->
              IF LabelLines(lines, "**Conditions:**") # <<>>
              THEN strip(SplitLast(LabelLines(lines, "**Conditions:**")[1], "**Conditions:**"))
              ELSE DefaultConditions,
          severity |->
              IF LabelLines(lines, "**Severity:**") # <<>>
              THEN IntOf(SeverityText(lines)) ELSE DefaultSeverity,
          confidence |->
              IF LabelLines(lines, "**Confidence:**") # <<>>
              THEN IntOf(ConfidenceText(lines)) ELSE DefaultConfidence]

ParseDiagnosis(response) == The({ParseLines(lines) : lines \in {splitlines(response)}})

\* the conditions argument of Diagnosis(...) in diagnose
ConditionList(conditions) ==
    IF conditions # "" THEN StripNonEmpty(SplitChar(conditions, ",")) ELSE <<DefaultConditions>>

\* "\n".join(f"**{role.capitalize()}**: {content}" for each message)
RECURSIVE ContextLines(_)
ContextLines(messages) ==
    IF messages = <<>> THEN <<>>
    ELSE <<"**" \o capitalize(Head(messages).role) \o "**: " \o Head(messages).content>>
         \o ContextLines(Tail(messages))

Context(messages) == join("\n", ContextLines(messages))

(***************************************************************************)
(* Requests and responses.  A JSON value is [t, v]: a string, null, a      *)
(* non-zero number, a non-empty list, or an absent key.                    *)
(***************************************************************************)
JStr(v) == [t |-> "str", v |-> v]
JNull == [t |-> "null", v |-> ""]
JNum == [t |-> "num", v |-> "7"]
JList == [t |-> "list", v |-> "[u1]"]
JAbsent == [t |-> "absent", v |-> ""]

\* data.get(key, '')
get(field) == IF field.t = "absent" THEN JStr("") ELSE field

\* Python truth of a JSON value
Truthy(j) == j.t \in {"num", "list"} \/ (j.t = "str" /\ j.v # "")

\* hashable: usable as a key of the sessions dict
Hashable(j) == j.t # "list"

Keys == {"u1", "u2"}
Threads == {1, 2}

Sad == JStr("I feel sad")
Crisis == JStr("I want to KILL MYSELF")

Body(message, id) == [kind |-> "object", message |-> message, id |-> id]

\* request.json: a JSON object with the two fields, or a body that is no object
Accepted == {Body(Sad, JStr(k)) : k \in Keys}
CrisisRequests == {Body(Crisis, i) : i \in {JStr(k) : k \in Keys} \cup {JStr(""), JAbsent, JList}}
Incomplete ==
    {Body(JStr(""), JStr("u1")), Body(JAbsent, JStr("u2")), Body(JNull, JStr("u1")),
     Body(Sad, JStr("")), Body(Sad, JAbsent), Body(JAbsent, JAbsent)}
Unusable ==
    {Body(JNum, JStr("u1")), Body(Sad, JList), [kind |-> "other", message |-> JAbsent, id |-> JAbsent]}

Requests == Accepted \cup CrisisRequests \cup Incomplete \cup Unusable

\* the requests that overlap each other
OverlapRequests == {Body(Sad, JStr("u1")), Body(Crisis, JStr("u1")), Body(Sad, JStr(""))}

NoData == [kind |-> "none", message |-> JAbsent, id |-> JAbsent]

Response(status, kind, text, id) == [status |-> status, kind |-> kind, text |-> text, id |-> id]
NoResp == Response(0, "none", "", JNull)
BadRequest == Response(400, "error", "Missing message or user ID", JNull)
ServerError == Response(500, "error", "Something went wrong on the server", JNull)
CrisisResponse(user_id) == Response(200, "response", CrisisText, user_id)
ClearResponse == Response(200, "response", "All sessions have been cleared.", JNull)

(***************************************************************************)
(* A request's frame: the locals of chat() and where it stands.  calls is  *)
(* the list of backend calls the request has made: prompt and outcome.     *)
(***************************************************************************)
NoPrompt == [template |-> "none", args |-> <<>>]

Idle ==
    [pc |-> "idle", op |-> "none", data |-> NoData, user_message |-> "", user_id |-> "",
     session |-> 0, context |-> "", parsed |-> <<>>, prompt |-> NoPrompt,
     calls |-> <<>>, resp |-> NoResp]

\* return from the handler: the locals die, the response and the calls stay
Return(f, resp) ==
    [f EXCEPT !.pc = "done", !.resp = resp, !.user_message = "", !.user_id = "",
              !.session = 0, !.context = "", !.parsed = <<>>, !.prompt = NoPrompt]

\* str(n) for a small integer
RECURSIVE NatStr(_)
NatStr(n) == IF n < 10 THEN CharAt(Digits, n + 1) ELSE NatStr(n \div 10) \o CharAt(Digits, (n % 10) + 1)
str(n) == IF n < 0 THEN "-" \o NatStr(0 - n) ELSE NatStr(n)

DiagnosisPrompt(context) == [template |-> "diagnosis_summary", args |-> <<context>>]
EmotionsPrompt(message) == [template |-> "emotions", args |-> <<message>>]
StrategiesPrompt(d) ==
    [template |-> "coping_strategies",
     args |-> <<join(", ", d.emotions), join(", ", d.conditions), str(d.severity)>>]

\* the prompt of lines 203-228
ReplyPrompt(s) ==
    IF s.diagnosis # <<>>
    THEN [template |-> "reply_diagnosis",
          args |-> <<Context(s.messages), join(", ", s.diagnosis[1].conditions),
                     str(s.diagnosis[1].severity)>>]
    ELSE [template |-> "reply_plain", args |-> <<Context(s.messages)>>]

\* the state the handlers share
World == [sessions |-> sessions, heap |-> heap, accepted |-> accepted, diagnosed |-> diagnosed]

State(w, f) == [w |-> w, f |-> f]

(***************************************************************************)
(* chat(), cut at the places where the handler touches the sessions dict   *)
(* and where it waits for the backend.                                     *)
(***************************************************************************)
\* faulty variant: only the id is validated
Validated_id_only(user_message, user_id) == Truthy(user_id)

\* `if not user_message or not user_id`, negated
Validated(user_message, user_id) == Truthy(user_message) /\ Truthy(user_id)

\* get_or_create_session(user_id) up to `if user_id not in sessions`
chat_session(w, f, user_message, user_id) ==
    IF ~Hashable(user_id) THEN State(w, Return(f, ServerError))
    ELSE State([w EXCEPT !.accepted[user_id.v] = @ + 1],
               [f EXCEPT !.pc = IF w.sessions[user_id.v] = 0 THEN "store" ELSE "get",
                         !.user_message = user_message.v, !.user_id = user_id.v])

\* faulty variant: no crisis gate before the session is fetched
chat_gate_absent(w, f, user_message, user_id) == chat_session(w, f, user_message, user_id)

\* the crisis gate, then the session
chat_gate(w, f, user_message, user_id) ==
    IF check_for_crisis(user_message.v)
    THEN State(w, Return(f, CrisisResponse(user_id)))
    ELSE chat_session(w, f, user_message, user_id)

\* chat() from request.json to the membership test of get_or_create_session
chat_begin(w, data) ==
    LET f == [Idle EXCEPT !.op = "chat", !.data = data]
        user_message == get(data.message)
        user_id == get(data.id)
    IN  IF data.kind # "object" THEN State(w, Return(f, ServerError))
        ELSE IF ~Validated(user_message, user_id) THEN State(w, Return(f, BadRequest))
        ELSE IF user_message.t # "str" THEN State(w, Return(f, ServerError))
        ELSE chat_gate(w, f, user_message, user_id)

\* faulty variant: the new session is stored under every id that has none
get_or_create_store_every_id(w, f) ==
    State([w EXCEPT !.heap = Append(@, Session(f.user_id)),
                    !.sessions = [k \in Keys |-> IF @[k] = 0 THEN Len(w.heap) + 1 ELSE @[k]]],
          [f EXCEPT !.pc = "get"])

\* sessions[user_id] = Session(user_id)
get_or_create_store(w, f) ==
    State([w EXCEPT !.heap = Append(@, Session(f.user_id)),
                    !.sessions[f.user_id] = Len(w.heap) + 1],
          [f EXCEPT !.pc = "get"])

\* faulty variant: the guard without the diagnosis-absent check
NeedsDiagnosis_unguarded(s) == Len(s.messages) >= DiagnosisThreshold

\* faulty variant: the threshold counts the user's messages only
NeedsDiagnosis_user_messages(s) ==
    /\ Cardinality({i \in 1..Len(s.messages) : s.messages[i].role = "user"}) >= DiagnosisThreshold
    /\ s.diagnosis = <<>>

\* faulty variant: the guard asks for more than the threshold
NeedsDiagnosis_beyond(s) == Len(s.messages) > DiagnosisThreshold /\ s.diagnosis = <<>>

\* the guard of the ACTIVE -> DIAGNOSED transition
NeedsDiagnosis(s) == Len(s.messages) >= DiagnosisThreshold /\ s.diagnosis = <<>>

\* return sessions[user_id]; the user append; the guard; the next prompt
chat_append_user(w, f) ==
    IF w.sessions[f.user_id] = 0
    THEN State(w, Return(f, ServerError))
    ELSE LET ref == w.sessions[f.user_id]
             s == [w.heap[ref] EXCEPT
                      !.messages = Append(@, [role |-> "user", content |-> f.user_message])]
             w1 == [w EXCEPT !.heap[ref] = s]
         IN  IF NeedsDiagnosis(s)
             THEN State([w1 EXCEPT !.diagnosed[f.user_id] = @ + 1],
                        [f EXCEPT !.pc = "diag_call", !.session = ref,
                                  !.context = Context(s.messages),
                                  !.prompt = DiagnosisPrompt(Context(s.messages))])
             ELSE State(w1, [f EXCEPT !.pc = "reply_call", !.session = ref,
                                      !.prompt = ReplyPrompt(s)])

\* one backend call made: its prompt and how it came back
Called(f, o) ==
    [f EXCEPT !.calls = Append(@, [template |-> f.prompt.template, args |-> f.prompt.args,
                                   outcome |-> o.kind, content |-> o.content])]

\* diagnose: the summary call and the parse of its answer
diagnose_summary(w, f, o) ==
    State(w, [Called(f, o) EXCEPT !.pc = "emo_call",
                                  !.parsed = <<ParseDiagnosis(generate_ai_response(o))>>,
                                  !.prompt = EmotionsPrompt(f.context)])

\* diagnose: the emotions call and the assignment of session.diagnosis
diagnose_emotions(w, f, o) ==
    LET emotions == classify_emotions(generate_ai_response(o))
        p == f.parsed[1]
        d == Diagnosis(emotions, ConditionList(p.conditions), p.severity, p.confidence)
    IN  State([w EXCEPT !.heap[f.session].diagnosis = <<d>>],
              [Called(f, o) EXCEPT !.pc = "strat_call", !.context = "", !.parsed = <<>>,
                                   !.prompt = StrategiesPrompt(d)])

\* faulty variant: the reply prompt was built before the diagnosis was formed
chat_strategies_stale_prompt(w, f, o) ==
    LET strategies == generate_coping_strategies(generate_ai_response(o))
        w1 == [w EXCEPT !.heap[f.session].therapy_plan.strategies = strategies]
    IN  State(w1, [Called(f, o) EXCEPT
                      !.pc = "reply_call",
                      !.prompt = ReplyPrompt([w1.heap[f.session] EXCEPT !.diagnosis = <<>>])])

\* the strategies call, the assignment of therapy_plan.strategies, the reply prompt
chat_strategies(w, f, o) ==
    LET strategies == generate_coping_strategies(generate_ai_response(o))
        w1 == [w EXCEPT !.heap[f.session].therapy_plan.strategies = strategies]
    IN  State(w1, [Called(f, o) EXCEPT !.pc = "reply_call",
                                       !.prompt = ReplyPrompt(w1.heap[f.session])])

\* faulty variant: the conclusion after two exchanges
Concludes_early(s) == Len(s.messages) >= ConclusionThreshold - 6 /\ ~s.completed

\* faulty variant: the conclusion one message late
Concludes_late(s) == Len(s.messages) > ConclusionThreshold /\ ~s.completed

\* the guard of the -> CONCLUDED transition
Concludes(s) == Len(s.messages) >= ConclusionThreshold /\ ~s.completed

\* faulty variant: the assistant message is stored after the notice is added
chat_reply_stores_notice(w, f, o) ==
    LET assistant_message == generate_ai_response(o)
        concludes == Len(w.heap[f.session].messages) + 1 >= ConclusionThreshold
                     /\ ~w.heap[f.session].completed
        text == IF concludes THEN assistant_message \o ConclusionNotice ELSE assistant_message
        s == [w.heap[f.session] EXCEPT
                 !.messages = Append(@, [role |-> "assistant", content |-> text]),
                 !.completed = @ \/ concludes]
    IN  State([w EXCEPT !.heap[f.session] = s],
              Return(Called(f, o), Response(200, "response", text, JStr(f.user_id))))

\* faulty variant: a completed session keeps its last ten messages only
chat_reply_capped(w, f, o) ==
    LET assistant_message == generate_ai_response(o)
        all == Append(w.heap[f.session].messages,
                      [role |-> "assistant", content |-> assistant_message])
        s == [w.heap[f.session] EXCEPT
                 !.messages = IF w.heap[f.session].completed
                              THEN SubSeq(all, Len(all) - ConclusionThreshold + 1, Len(all))
                              ELSE all]
        text == IF Concludes(s) THEN assistant_message \o ConclusionNotice
                ELSE assistant_message
    IN  State([w EXCEPT !.heap[f.session] = [s EXCEPT !.completed = @ \/ Concludes(s)]],
              Return(Called(f, o), Response(200, "response", text, JStr(f.user_id))))

\* faulty variant: a failed reply is not appended
chat_reply_drop_failed(w, f, o) ==
    LET assistant_message == generate_ai_response(o)
        s == [w.heap[f.session] EXCEPT
                 !.messages = IF o.kind = "ok"
                              THEN Append(@, [role |-> "assistant", content |-> assistant_message])
                              ELSE @]
    IN  State([w EXCEPT !.heap[f.session] = s],
              Return(Called(f, o), Response(200, "response", assistant_message, JStr(f.user_id))))

\* the reply call, the assistant append, the conclusion, the response
chat_reply(w, f, o) ==
    LET assistant_message == generate_ai_response(o)
        s == [w.heap[f.session] EXCEPT
                 !.messages = Append(@, [role |-> "assistant", content |-> assistant_message])]
        text == IF Concludes(s) THEN assistant_message \o ConclusionNotice
                ELSE assistant_message
    IN  State([w EXCEPT !.heap[f.session] = [s EXCEPT !.completed = @ \/ Concludes(s)]],
              Return(Called(f, o), Response(200, "response", text, JStr(f.user_id))))

\* faulty variant: the sessions dict is kept
clear_keeps_sessions(w) ==
    [w EXCEPT !.accepted = [k \in Keys |-> 0], !.diagnosed = [k \in Keys |-> 0]]

\* clear(): sessions = {}
clear(w) ==
    [w EXCEPT !.sessions = [k \in Keys |-> 0],
              !.accepted = [k \in Keys |-> 0],
              !.diagnosed = [k \in Keys |-> 0]]

\* the outcomes of the backend calls one request may meet
NoOuts == [diag |-> NoOutcome, emo |-> NoOutcome, strat |-> NoOutcome, reply |-> NoOutcome]
Outcomes(texts) == {Ok(x) : x \in texts} \cup Failures

\* one step of a request that has begun
Step(w, f, outs) ==
    CASE f.pc = "store" -> get_or_create_store(w, f)
      [] f.pc = "get" -> chat_append_user(w, f)
      [] f.pc = "diag_call" -> diagnose_summary(w, f, outs.diag)
      [] f.pc = "emo_call" -> diagnose_emotions(w, f, outs.emo)
      [] f.pc = "strat_call" -> chat_strategies(w, f, outs.strat)
      [] f.pc = "reply_call" -> chat_reply(w, f, outs.reply)

\* chat() up to its first backend call
RECURSIVE RunLocal(_)
RunLocal(st) ==
    IF st.f.pc \in {"store", "get"} THEN RunLocal(Step(st.w, st.f, NoOuts)) ELSE st

\* chat() to its return
RECURSIVE Run(_, _)
Run(st, outs) == IF st.f.pc = "done" THEN st ELSE Run(Step(st.w, st.f, outs), outs)

\* the failed ones among the four outcomes
FailedOuts(outs) ==
    Cardinality({n \in {"diag", "emo", "strat", "reply"} : outs[n].kind \in FailureKinds})

\* the outcomes to choose for a request standing at pc, at most budget of them failures
OutcomeChoices(pc, budget) ==
    CASE pc = "diag_call" ->
            {outs \in [diag : Outcomes(DiagnosisTexts), emo : Outcomes(EmotionTexts),
                       strat : Outcomes(StrategyTexts), reply : Outcomes(ReplyTexts)] :
                FailedOuts(outs) <= budget}
      [] pc = "reply_call" ->
            {outs \in [diag : {NoOutcome}, emo : {NoOutcome}, strat : {NoOutcome},
                       reply : Outcomes(ReplyTexts)] :
                FailedOuts(outs) <= budget}
      [] OTHER -> {NoOuts}

\* the sum of a counter over the keys
RECURSIVE SumOver(_, _)
SumOver(count, keys) ==
    IF keys = {} THEN 0
    ELSE LET k == CHOOSE x \in keys : TRUE IN count[k] + SumOver(count, keys \ {k})

Total(count) == SumOver(count, Keys)

\* the failed backend calls among calls
Fails(calls) == Cardinality({i \in 1..Len(calls) : calls[i].outcome # "ok"})

(***************************************************************************)
(* Sessions no name refers to any more are reclaimed.                      *)
(***************************************************************************)
Live(ss, rq) == ({ss[k] : k \in Keys} \cup {rq[t].session : t \in Threads}) \ {0}

\* the place of session i among the live ones: the stored ones first
Rank(ss, live, i) ==
    IF i = 0 THEN 0
    ELSE IF \E k \in Keys : ss[k] = i
    THEN Cardinality({j \in live : (\E k \in Keys : ss[k] = j) /\ j <= i})
    ELSE Cardinality({j \in live : (\E k \in Keys : ss[k] = j) \/ j <= i})

Collect(ss, hp, rq) ==
    LET live == Live(ss, rq)
    IN  [sessions |-> [k \in Keys |-> Rank(ss, live, ss[k])],
         heap |-> [n \in 1..Cardinality(live) |->
                      hp[CHOOSE i \in live : Rank(ss, live, i) = n]],
         req |-> [t \in Threads |-> [rq[t] EXCEPT !.session = Rank(ss, live, @)]]]

\* the next state: world w, thread t's frame f, n more failed backend calls
Commit(w, t, f, n) ==
    \E c \in {Collect(w.sessions, w.heap, [req EXCEPT ![t] = f])} :
        /\ sessions' = c.sessions
        /\ heap' = c.heap
        /\ req' = c.req
        /\ accepted' = w.accepted
        /\ diagnosed' = w.diagnosed
        /\ failures' = failures + n

Init ==
    /\ sessions = [k \in Keys |-> 0]
    /\ heap = <<>>
    /\ req = [t \in Threads |-> Idle]
    /\ accepted = [k \in Keys |-> 0]
    /\ diagnosed = [k \in Keys |-> 0]
    /\ failures = 0

(***************************************************************************)
(* Requests handled one at a time: each handler runs to its return.        *)
(***************************************************************************)
Chat ==
    \E data \in Requests :
        \E pre \in {RunLocal(chat_begin(World, data))} :
            /\ Total(pre.w.accepted) <= MaxChats
            /\ \E outs \in OutcomeChoices(pre.f.pc, MaxFailures - failures) :
                \E st \in {Run(pre, outs)} :
                    Commit(st.w, 1, st.f, Fails(st.f.calls))

Clear ==
    Commit(clear(World), 1, Return([Idle EXCEPT !.op = "clear"], ClearResponse), 0)

Next == Chat \/ Clear

Spec == Init /\ [][Next]_vars

(***************************************************************************)
(* One session, one request at a time, with the backend answering the      *)
(* summary prompt in every way of SummaryCases.                            *)
(***************************************************************************)
DiagnoseChoices(pc, budget) ==
    CASE pc = "diag_call" ->
            {outs \in [diag : Outcomes(SummaryTexts), emo : Outcomes(EmotionTexts),
                       strat : Outcomes(StrategyTexts), reply : Outcomes(ReplyTexts)] :
                FailedOuts(outs) <= budget}
      [] OTHER -> OutcomeChoices(pc, budget)

DiagnoseChat ==
    \E pre \in {RunLocal(chat_begin(World, Body(Sad, JStr("u1"))))} :
        /\ Total(pre.w.accepted) <= MaxDiagnoseChats
        /\ \E outs \in DiagnoseChoices(pre.f.pc, MaxFailures - failures) :
            \E st \in {Run(pre, outs)} :
                Commit(st.w, 1, st.f, Fails(st.f.calls))

DiagnoseNext == DiagnoseChat

DiagnoseSpec == Init /\ [][DiagnoseNext]_vars

(***************************************************************************)
(* One request at a time, with message texts that hold a risk phrase in    *)
(* some mix of cases, or nearly hold one.                                  *)
(***************************************************************************)
DetectCores ==
    {"suicide", "SUICIDE", "SuIcIdE", "suicid e",
     "kill myself", "KILL MYSELF", "Kill Myself", "kill  myself",
     "self-harm", "SELF-HARM", "Self-Harm", "self harm",
     "end it all", "END IT ALL", "End It All", "end it al",
     "sad"}

DetectTexts ==
    {prefix \o core \o suffix : prefix \in {"", "I "}, core \in DetectCores, suffix \in {"", "!"}}

DetectChat ==
    \E text \in DetectTexts :
        \E pre \in {RunLocal(chat_begin(World, Body(JStr(text), JStr("u1"))))} :
            /\ Total(pre.w.accepted) <= MaxDetectChats
            /\ \E st \in {Run(pre, [NoOuts EXCEPT !.reply = Ok("  I hear you.\n")])} :
                Commit(st.w, 1, st.f, 0)

DetectNext == DetectChat

DetectSpec == Init /\ [][DetectNext]_vars

(***************************************************************************)
(* Requests handled by threads that overlap: a handler is interleaved with *)
(* the others wherever it touches the sessions dict or waits for the       *)
(* backend.                                                                *)
(***************************************************************************)
Free(t) == req[t].pc \in {"idle", "done"}

\* the backend answers thread t's call with o, within the failure budget
Answers(t, o) == o.kind \in FailureKinds => failures < MaxFailures
Failed1(o) == IF o.kind \in FailureKinds THEN 1 ELSE 0

Begin(t) ==
    /\ Free(t)
    /\ \E data \in OverlapRequests :
        \E st \in {chat_begin(World, data)} :
            /\ Total(st.w.accepted) <= MaxOverlapChats
            /\ Commit(st.w, t, st.f, 0)

Store(t) ==
    /\ req[t].pc = "store"
    /\ \E st \in {get_or_create_store(World, req[t])} : Commit(st.w, t, st.f, 0)

Get(t) ==
    /\ req[t].pc = "get"
    /\ \E st \in {chat_append_user(World, req[t])} : Commit(st.w, t, st.f, 0)

DiagCall(t) ==
    /\ req[t].pc = "diag_call"
    /\ \E o \in Outcomes(DiagnosisTexts) :
        /\ Answers(t, o)
        /\ \E st \in {diagnose_summary(World, req[t], o)} : Commit(st.w, t, st.f, Failed1(o))

EmoCall(t) ==
    /\ req[t].pc = "emo_call"
    /\ \E o \in Outcomes(EmotionTexts) :
        /\ Answers(t, o)
        /\ \E st \in {diagnose_emotions(World, req[t], o)} : Commit(st.w, t, st.f, Failed1(o))

StratCall(t) ==
    /\ req[t].pc = "strat_call"
    /\ \E o \in Outcomes(StrategyTexts) :
        /\ Answers(t, o)
        /\ \E st \in {chat_strategies(World, req[t], o)} : Commit(st.w, t, st.f, Failed1(o))

ReplyCall(t) ==
    /\ req[t].pc = "reply_call"
    /\ \E o \in Outcomes(ReplyTexts) :
        /\ Answers(t, o)
        /\ \E st \in {chat_reply(World, req[t], o)} : Commit(st.w, t, st.f, Failed1(o))

ClearAll(t) ==
    /\ Free(t)
    /\ Commit(clear(World), t, Return([Idle EXCEPT !.op = "clear"], ClearResponse), 0)

OverlapNext ==
    \E t \in Threads :
        \/ Begin(t) \/ Store(t) \/ Get(t)
        \/ DiagCall(t) \/ EmoCall(t) \/ StratCall(t) \/ ReplyCall(t)
        \/ ClearAll(t)

OverlapSpec == Init /\ [][OverlapNext]_vars

(***************************************************************************)
(* Properties.  With requests handled one at a time, req[1] is the frame   *)
(* of the handler that ran last: its request, its backend calls, its       *)
(* response.                                                               *)
(***************************************************************************)
\* the last handler was chat, and this is what it was sent
LastChat == req[1].op = "chat" /\ req[1].pc = "done"
LastMessage == get(req[1].data.message)
LastId == get(req[1].data.id)

\* a step of chat that was accepted for id k
AcceptedStep(k) == req'[1].op = "chat" /\ accepted'[k] = accepted[k] + 1

\* the store is what it was
StoreUnchanged == sessions' = sessions /\ heap' = heap

\* the calls of the Diagnosis Formulator among calls
FormulatorCalls(calls) ==
    {i \in 1..Len(calls) : calls[i].template \in {"diagnosis_summary", "emotions"}}

\* C1: one request at a time, the session stored for an id holds two messages for
\* each chat call accepted for that id since the last clear (none stored: none
\* accepted); crisis and rejected requests add nothing, no call adds just one.
C1_TwoMessagesPerAcceptedCall ==
    \A k \in Keys :
        IF sessions[k] = 0 THEN accepted[k] = 0
        ELSE Len(heap[sessions[k]].messages) = 2 * accepted[k]

\* three accepted calls for u1, then a crisis request for u1: six messages
C1_Witness ==
    /\ accepted["u1"] = 3
    /\ sessions["u1"] # 0
    /\ Len(heap[sessions["u1"]].messages) = 6
    /\ LastChat
    /\ req[1].resp = CrisisResponse(JStr("u1"))

\* C2: a chat request with a non-empty id whose message the crisis detector
\* matches leaves the whole session store as it was and calls the backend never.
C2_CrisisLeavesStoreAndBackend ==
    [][(/\ req'[1].op = "chat"
        /\ req'[1].data.kind = "object"
        /\ get(req'[1].data.message).t = "str"
        /\ check_for_crisis(get(req'[1].data.message).v)
        /\ Truthy(get(req'[1].data.id)))
       => (StoreUnchanged /\ req'[1].calls = <<>>)]_vars

\* a crisis request for the unknown id u2 while u1 has a diagnosed session
C2_Witness ==
    /\ LastChat
    /\ req[1].data = Body(Crisis, JStr("u2"))
    /\ req[1].resp = CrisisResponse(JStr("u2"))
    /\ req[1].calls = <<>>
    /\ sessions["u2"] = 0
    /\ sessions["u1"] # 0
    /\ heap[sessions["u1"]].diagnosis # <<>>

\* C3: every chat request whose message text the crisis detector matches is
\* answered with the fixed safety message, and with nothing else.
C3_CrisisAlwaysSafetyMessage ==
    (/\ LastChat
     /\ req[1].data.kind = "object"
     /\ LastMessage.t = "str"
     /\ check_for_crisis(LastMessage.v))
    => (req[1].resp.status = 200 /\ req[1].resp.text = CrisisText)

\* C4: once the diagnosis of a session is set, no chat call forms it again or
\* changes it or the therapy plan: the formulator runs at most once per session
\* between two clears.
C4_DiagnosisNeverRecomputed ==
    /\ [](\A k \in Keys : diagnosed[k] <= 1)
    /\ [][\A k \in Keys :
            (/\ sessions[k] # 0
             /\ heap[sessions[k]].diagnosis # <<>>
             /\ req'[1].op = "chat")
            => (/\ sessions'[k] # 0
                /\ heap'[sessions'[k]].diagnosis = heap[sessions[k]].diagnosis
                /\ heap'[sessions'[k]].therapy_plan = heap[sessions[k]].therapy_plan
                /\ diagnosed'[k] = diagnosed[k]
                /\ (get(req'[1].data.id) = JStr(k) => FormulatorCalls(req'[1].calls) = {}))]_vars

\* a fifth or later accepted call on a diagnosed session, with the reply call only
C4_Witness ==
    \E k \in Keys :
        /\ LastChat
        /\ LastId = JStr(k)
        /\ accepted[k] >= 5
        /\ diagnosed[k] = 1
        /\ heap[sessions[k]].diagnosis # <<>>
        /\ Len(heap[sessions[k]].messages) >= 10
        /\ Len(req[1].calls) = 1

\* C5, as stated: the diagnosis is absent through the first four accepted chat
\* calls of a session and formed in the fifth.
C5_DiagnosisInFifthCall ==
    \A k \in Keys :
        sessions[k] # 0 =>
            /\ heap[sessions[k]].diagnosis # <<>> <=> accepted[k] >= 5
            /\ diagnosed[k] = IF accepted[k] >= 5 THEN 1 ELSE 0

\* C5, amended: the diagnosis is absent through the first two accepted chat
\* calls of a session and formed in the third, whose user message is the fifth
\* message of the session counting both roles.
C5_DiagnosisInThirdCall ==
    \A k \in Keys :
        sessions[k] # 0 =>
            /\ heap[sessions[k]].diagnosis # <<>> <=> accepted[k] >= 3
            /\ diagnosed[k] = IF accepted[k] >= 3 THEN 1 ELSE 0

\* the third accepted call of a session has just formed its diagnosis
C5_Witness ==
    \E k \in Keys :
        /\ LastChat
        /\ LastId = JStr(k)
        /\ accepted[k] = 3
        /\ heap[sessions[k]].diagnosis # <<>>
        /\ FormulatorCalls(req[1].calls) = {1, 2}

\* C6: one request at a time, completed is true exactly from the chat call whose
\* assistant append brings the session to ten messages: false before, true after
\* every later call until the store is cleared.
C6_CompletedFromTenMessages ==
    /\ [](\A k \in Keys :
            sessions[k] # 0 =>
                (heap[sessions[k]].completed <=> Len(heap[sessions[k]].messages) >= 10))
    /\ [][\A k \in Keys :
            (sessions[k] # 0 /\ heap[sessions[k]].completed /\ req'[1].op = "chat")
            => (sessions'[k] # 0 /\ heap'[sessions'[k]].completed)]_vars

\* a sixth accepted call on a session that was completed by its fifth
C6_Witness ==
    \E k \in Keys :
        /\ LastChat
        /\ LastId = JStr(k)
        /\ accepted[k] = 6
        /\ Len(heap[sessions[k]].messages) = 12
        /\ heap[sessions[k]].completed

\* what the last call of the last chat came back with
ReplyOutcome == req[1].calls[Len(req[1].calls)].outcome

\* the two fixed fallback texts
FallbackTexts == {FallbackConnect, FallbackProcess}
FallbackFor(outcome) ==
    IF outcome \in {"transport", "http_status"} THEN FallbackConnect ELSE FallbackProcess

\* the stored session of the last chat ends with its user message and an
\* assistant message, two for each accepted call
GrewByPair ==
    LET s == heap[sessions[LastId.v]]
        n == Len(s.messages)
    IN  /\ n = 2 * accepted[LastId.v]
        /\ s.messages[n - 1] = [role |-> "user", content |-> LastMessage.v]
        /\ s.messages[n].role = "assistant"

\* C7, as stated: an accepted chat call in which a backend call fails returns 200
\* with a fixed fallback text, and that text is the assistant message appended
\* after the user message.
C7_AnyFailureYieldsFallback ==
    (LastChat /\ Fails(req[1].calls) > 0) =>
        /\ req[1].resp.status = 200
        /\ req[1].resp.text \in FallbackTexts
        /\ GrewByPair
        /\ heap[sessions[LastId.v]].messages[2 * accepted[LastId.v]].content = req[1].resp.text

\* C7, amended: an accepted chat call in which a backend call fails returns 200
\* and the session grows by the user message and an assistant message; if it is
\* the reply call that failed, the assistant message is the fallback text of the
\* failure (one text for transport and HTTP errors, one for the others) and the
\* response is that text, followed by the conclusion notice in the call that
\* brings the session to ten messages.
C7_FailedReplyYieldsFallback ==
    (LastChat /\ Fails(req[1].calls) > 0) =>
        /\ req[1].resp.status = 200
        /\ GrewByPair
        /\ ReplyOutcome # "ok" =>
            LET n == 2 * accepted[LastId.v]
                said == heap[sessions[LastId.v]].messages[n].content
            IN  /\ said = FallbackFor(ReplyOutcome)
                /\ req[1].resp.text = IF n = 10 THEN said \o ConclusionNotice ELSE said

\* the reply call of the fifth accepted call fails: fallback text and notice
C7_Witness ==
    /\ LastChat
    /\ Fails(req[1].calls) = 1
    /\ ReplyOutcome = "malformed"
    /\ accepted[LastId.v] = 5
    /\ req[1].resp.text = FallbackProcess \o ConclusionNotice
    /\ heap[sessions[LastId.v]].messages[10].content = FallbackProcess

\* a field that is missing or empty
Empty(j) == j.t \in {"absent", "null"} \/ j = JStr("")

C9_ClearStartsAfresh ==
    /\ [](req[1].op = "clear" => (heap = <<>> /\ \A k \in Keys : sessions[k] = 0))
    /\ [][\A k \in Keys :
            (AcceptedStep(k) /\ (req[1].op = "clear" \/ sessions[k] = 0))
            => (/\ sessions'[k] # 0
                /\ heap'[sessions'[k]] =
                     [Session(k) EXCEPT !.messages =
                         <<[role |-> "user", content |-> get(req'[1].data.message).v],
                           [role |-> "assistant", content |-> req'[1].resp.text]>>]
                /\ Len(req'[1].calls) = 1
                /\ req'[1].calls[1].template = "reply_plain")]_vars

\* the first call for u1 after a clear that discarded a session with a failed
\* backend call in its history
C9_Witness ==
    /\ LastChat
    /\ LastId = JStr("u1")
    /\ accepted = [k \in Keys |-> IF k = "u1" THEN 1 ELSE 0]
    /\ Len(heap) = 1
    /\ failures = 1
    /\ Len(req[1].calls) = 1
    /\ Fails(req[1].calls) = 0

\* C10: get_or_create_session stores a fresh session for an id only while none
\* is stored for it, so that overlapping requests for an unknown id share one
\* session and the messages of neither are lost.
C10_CreateOnlyWhenAbsent ==
    [][\A t \in Threads :
            (req[t].pc = "store" /\ req'[t].pc = "get")
            => sessions[req[t].user_id] = 0]_vars

\* the last chat formed the diagnosis of its session: this is the diagnosis
LastFormed == LastChat /\ FormulatorCalls(req[1].calls) = {1, 2}
LastDiagnosis == heap[sessions[LastId.v]].diagnosis[1]

\* C11, as stated: if the backend is unreachable in the summary call or in the
\* emotions call of diagnose, the call returns 200 and the diagnosis holds all the
\* degraded defaults: conditions ["General stress"], severity 3, confidence 80,
\* emotions the fallback text alone.
C11_EitherFailureAllDefaults ==
    (LastFormed /\ (req[1].calls[1].outcome = "transport" \/ req[1].calls[2].outcome = "transport"))
    => (/\ req[1].resp.status = 200
        /\ LastDiagnosis = Diagnosis(<<FallbackConnect>>, <<"General stress">>, 3, 80))

\* C11, amended: a failed call of diagnose never raises and the chat call returns
\* 200; a failed summary call leaves conditions ["General stress"], severity 3,
\* confidence 80; a failed emotions call leaves emotions the fallback text alone;
\* the fields of the call that succeeded are those parsed from its answer.
C11_EachFailureItsDefaults ==
    (LastFormed /\ Fails(SubSeq(req[1].calls, 1, 2)) > 0)
    => (/\ req[1].resp.status = 200
        /\ heap[sessions[LastId.v]].diagnosis # <<>>
        /\ req[1].calls[1].outcome # "ok" =>
            (/\ LastDiagnosis.conditions = <<"General stress">>
             /\ LastDiagnosis.severity = 3
             /\ LastDiagnosis.confidence = 80)
        /\ req[1].calls[2].outcome # "ok" =>
            (/\ LastDiagnosis.emotions = <<FallbackFor(req[1].calls[2].outcome)>>
             /\ (req[1].calls[1].outcome = "ok" => LastDiagnosis.severity = 4))
        /\ (req[1].calls[1].outcome # "ok" /\ req[1].calls[2].outcome = "ok") =>
            LastDiagnosis.emotions = <<"**sadness**", "**stress**">>)

\* the emotions call is the one that could not connect: the summary's fields stay
C11_Witness ==
    /\ LastFormed
    /\ req[1].calls[1].outcome = "ok"
    /\ req[1].calls[2].outcome = "transport"
    /\ LastDiagnosis = Diagnosis(<<FallbackConnect>>, <<"anxiety", "stress">>, 4, 70)
    /\ req[1].resp.status = 200

\* the case the backend answered the summary prompt of the last chat with
LastSummaryCase == CHOOSE c \in SummaryCases : Summary(c) = req[1].calls[1].content

\* C12: whatever text answers the summary prompt, diagnose does not raise (the
\* chat call returns 200 with the diagnosis set), and each of conditions,
\* severity, confidence whose label line is absent or whose value cannot be
\* parsed holds its default: "General stress", 3, 80.
C12_UnparsedFieldsHoldDefaults ==
    (LastFormed /\ req[1].calls[1].outcome = "ok") =>
        /\ req[1].resp.status = 200
        /\ heap[sessions[LastId.v]].diagnosis # <<>>
        /\ \A c \in {LastSummaryCase} :
            /\ ~c.conditions.good => LastDiagnosis.conditions = <<"General stress">>
            /\ ~c.severity.good => LastDiagnosis.severity = 3
            /\ ~c.confidence.good => LastDiagnosis.confidence = 80
            /\ (c.conditions.good /\ c.severity.good /\ c.confidence.good) =>
                (/\ LastDiagnosis.conditions = c.conditions.value
                 /\ LastDiagnosis.severity = c.severity.value
                 /\ LastDiagnosis.confidence = c.confidence.value)

\* a severity that is no integer, between conditions and a confidence that parse:
\* the except branch sets all three defaults
C12_Witness ==
    /\ LastFormed
    /\ req[1].calls[1].outcome = "ok"
    /\ req[1].calls[1].content =
         "**Diagnosis Summary:**\n- **Conditions:** anxiety, stress\n- **Severity:** high\n- **Confidence:** 65%\n"
    /\ LastDiagnosis.severity = 3
    /\ LastDiagnosis.conditions = <<"General stress">>
    /\ LastDiagnosis.confidence = 80
    /\ req[1].resp.status = 200

\* a and b are the same text but for the case of their letters
SameButCase(a, b) ==
    /\ Len(a) = Len(b)
    /\ \A i \in 1..Len(a) : UpperChar(CharAt(a, i)) = UpperChar(CharAt(b, i))

\* some risk phrase occurs in text, whatever the case of the letters of text
HoldsRiskPhrase(text) ==
    \E phrase \in {"suicide", "kill myself", "self-harm", "end it all"} :
        \E i \in 1..(Len(text) - Len(phrase) + 1) :
            SameButCase(SubSeq(text, i, i + Len(phrase) - 1), phrase)

\* C13: the crisis detector is true exactly if a phrase of the fixed risk set
\* occurs in the text as a substring, letters compared without regard to case
\* (seen at chat: the safety message is the response exactly for such a text).
C13_DetectIffPhraseIgnoringCase ==
    (LastChat /\ LastMessage.t = "str" /\ LastMessage.v # "" /\ LastId = JStr("u1"))
    => (/\ check_for_crisis(LastMessage.v) <=> HoldsRiskPhrase(LastMessage.v)
        /\ req[1].resp = CrisisResponse(JStr("u1")) <=> HoldsRiskPhrase(LastMessage.v)
        /\ req[1].resp # CrisisResponse(JStr("u1")) => req[1].resp.status = 200 /\ Len(req[1].calls) = 1)

\* a phrase in mixed case inside a longer text is detected; the same text with a
\* letter missing was accepted before
C13_Witness ==
    /\ LastChat
    /\ LastMessage = JStr("I SuIcIdE!")
    /\ req[1].resp = CrisisResponse(JStr("u1"))
    /\ sessions["u1"] # 0
    /\ heap[sessions["u1"]].messages[1].content = "I end it al!"

\* C14: one request at a time, between requests the diagnosis of a session is
\* present exactly if the session holds five or more messages, counting both
\* roles; it is formed in the first call whose user append makes them five or
\* more (four were stored before the call) and in no earlier call.
C14_DiagnosisIffFiveMessages ==
    /\ [](\A k \in Keys :
            sessions[k] # 0 =>
                (heap[sessions[k]].diagnosis # <<>> <=> Len(heap[sessions[k]].messages) >= 5))
    /\ [][\A k \in Keys :
            AcceptedStep(k) =>
                (FormulatorCalls(req'[1].calls) # {}
                 <=> (sessions[k] # 0 /\ Len(heap[sessions[k]].messages) = 4))]_vars

\* four messages and no diagnosis between two requests
C14_Witness ==
    \E k \in Keys :
        /\ LastChat
        /\ LastId = JStr(k)
        /\ Len(req[1].calls) = 1
        /\ sessions[k] # 0
        /\ Len(heap[sessions[k]].messages) = 4
        /\ heap[sessions[k]].diagnosis = <<>>

\* the session of k was stored and completed before the step
WasCompleted(k) == sessions[k] # 0 /\ heap[sessions[k]].completed
MessagesBefore(k) == IF sessions[k] = 0 THEN <<>> ELSE heap[sessions[k]].messages

\* C15: one request at a time, the response of an accepted chat call is the
\* stored assistant message followed by the conclusion notice exactly in the call
\* in which completed turns true, and that message alone in every other call; the
\* notice is never stored and the call appends its two messages and no third;
\* completed never turns back, so the notice is sent once per session.
C15_NoticeOnceAndNeverStored ==
    [][\A k \in Keys :
            AcceptedStep(k) =>
                LET s == heap'[sessions'[k]]
                    n == Len(s.messages)
                    said == s.messages[n].content
                    turned == s.completed /\ ~WasCompleted(k)
                IN  /\ n = Len(MessagesBefore(k)) + 2
                    /\ SubSeq(s.messages, 1, n - 2) = MessagesBefore(k)
                    /\ req'[1].resp.text = IF turned THEN said \o ConclusionNotice ELSE said
                    /\ ~Contains(said, "Session Conclusion")
                    /\ (req'[1].calls[Len(req'[1].calls)].outcome = "ok" => said = "I hear you.")
                    /\ (WasCompleted(k) => s.completed)]_vars

\* the fifth accepted call: the notice is in the response, not in the history
C15_Witness ==
    \E k \in Keys :
        /\ LastChat
        /\ LastId = JStr(k)
        /\ accepted[k] = 5
        /\ req[1].resp.text = "I hear you." \o ConclusionNotice
        /\ Len(heap[sessions[k]].messages) = 10
        /\ heap[sessions[k]].messages[10] = [role |-> "assistant", content |-> "I hear you."]
        /\ heap[sessions[k]].completed

\* the templates of the prompts of calls, in the order of the calls
RECURSIVE Templates(_)
Templates(calls) ==
    IF calls = <<>> THEN <<>> ELSE <<Head(calls).template>> \o Templates(Tail(calls))

\* C16: one request at a time, an accepted chat call appends the user message,
\* then forms diagnosis and strategies if the guard fires, then builds the reply
\* prompt, calls the backend for the reply and appends the assistant message: the
\* call that forms the diagnosis makes four backend calls (summary, emotions,
\* strategies, reply) and its reply prompt already carries the diagnosis; every
\* other accepted call makes one, with the diagnosis in the prompt exactly if the
\* session had one; every prompt's conversation includes the call's user message
\* and not yet its assistant message.
C16_StepOrderAndBackendCalls ==
    [][\A k \in Keys :
            AcceptedStep(k) =>
                LET calls == req'[1].calls
                    user == [role |-> "user", content |-> get(req'[1].data.message).v]
                    s == heap'[sessions'[k]]
                    n == Len(s.messages)
                    seen == Context(Append(MessagesBefore(k), user))
                    had == sessions[k] # 0 /\ heap[sessions[k]].diagnosis # <<>>
                    reply == calls[Len(calls)]
                IN  /\ s.messages = MessagesBefore(k) \o <<user, s.messages[n]>>
                    /\ s.messages[n].role = "assistant"
                    /\ reply.args[1] = seen
                    /\ IF ~had /\ s.diagnosis # <<>>
                       THEN /\ Templates(calls) = <<"diagnosis_summary", "emotions",
                                                   "coping_strategies", "reply_diagnosis">>
                            /\ calls[1].args = <<seen>>
                            /\ calls[2].args = <<seen>>
                            /\ calls[3].args = <<join(", ", s.diagnosis[1].emotions),
                                                 join(", ", s.diagnosis[1].conditions),
                                                 str(s.diagnosis[1].severity)>>
                            /\ s.therapy_plan.strategies # <<>>
                       ELSE Templates(calls) = <<IF had THEN "reply_diagnosis" ELSE "reply_plain">>
                    /\ reply.template = "reply_diagnosis" =>
                        reply.args = <<seen, join(", ", s.diagnosis[1].conditions),
                                       str(s.diagnosis[1].severity)>>]_vars

\* the call that formed the diagnosis: four calls, the last with the diagnosis
C16_Witness ==
    /\ LastChat
    /\ Templates(req[1].calls) =
         <<"diagnosis_summary", "emotions", "coping_strategies", "reply_diagnosis">>
    /\ req[1].calls[4].args[2] = "anxiety, stress"
    /\ req[1].calls[4].args[3] = "4"
    /\ Fails(req[1].calls) = 0

\* C17: when chat requests on one session overlap, each suspended at any backend
\* call, the formulator is invoked at most once for the session, and diagnose
\* assigns session.diagnosis only while none is stored.
C17_OverlapDiagnosesOnce ==
    /\ [](\A k \in Keys : diagnosed[k] <= 1)
    /\ [][\A t \in Threads :
            (req[t].pc = "emo_call" /\ req'[t].pc = "strat_call")
            => heap[req[t].session].diagnosis = <<>>]_vars

\* C18: one request at a time, a session that is completed has a diagnosis and a
\* therapy plan that is not empty: no session is CONCLUDED without having been
\* DIAGNOSED.
C18_CompletedImpliesDiagnosed ==
    \A k \in Keys :
        (sessions[k] # 0 /\ heap[sessions[k]].completed) =>
            /\ heap[sessions[k]].diagnosis # <<>>
            /\ heap[sessions[k]].therapy_plan.strategies # <<>>
            /\ diagnosed[k] = 1

\* a completed session whose strategies call had failed: the plan holds the
\* fallback text
C18_Witness ==
    \E k \in Keys :
        /\ sessions[k] # 0
        /\ heap[sessions[k]].completed
        /\ heap[sessions[k]].diagnosis # <<>>
        /\ heap[sessions[k]].therapy_plan.strategies = <<FallbackConnect>>

\* C19: one request at a time, a chat call for id A leaves every other id B as
\* it was: B has a session after the call exactly if it had one before, with the
\* same messages, diagnosis, therapy plan and completed flag.
C19_OtherIdsUntouched ==
    [][\A B \in Keys :
            (req'[1].op = "chat" /\ get(req'[1].data.id) # JStr(B))
            => (/\ sessions'[B] = 0 <=> sessions[B] = 0
                /\ sessions[B] # 0 => heap'[sessions'[B]] = heap[sessions[B]]
                /\ accepted'[B] = accepted[B])]_vars

\* the first call for u1, creating its session, while u2 has a diagnosed one
C19_Witness ==
    /\ LastChat
    /\ LastId = JStr("u1")
    /\ accepted["u1"] = 1
    /\ Len(heap[sessions["u1"]].messages) = 2
    /\ sessions["u2"] # 0
    /\ heap[sessions["u2"]].diagnosis # <<>>
    /\ Len(heap[sessions["u2"]].messages) = 6

\* C20: one request at a time, an accepted chat call on a completed session is
\* handled like any other: the history before it is kept whole and grows by the
\* user message and an assistant message, the backend is called once, the
\* response is 200 with the text of the assistant message (the model's text if
\* the call succeeded), and the session stays completed.
C20_ConcludedKeepsTalking ==
    [][\A k \in Keys :
            (AcceptedStep(k) /\ WasCompleted(k)) =>
                LET s == heap'[sessions'[k]]
                    n == Len(heap[sessions[k]].messages)
                IN  /\ Len(s.messages) = n + 2
                    /\ SubSeq(s.messages, 1, n) = heap[sessions[k]].messages
                    /\ s.messages[n + 1] =
                         [role |-> "user", content |-> get(req'[1].data.message).v]
                    /\ s.messages[n + 2].role = "assistant"
                    /\ Len(req'[1].calls) = 1
                    /\ req'[1].resp =
                         Response(200, "response", s.messages[n + 2].content, JStr(k))
                    /\ (req'[1].calls[1].outcome = "ok" => s.messages[n + 2].content = "I hear you.")
                    /\ s.completed
                    /\ s.diagnosis = heap[sessions[k]].diagnosis]_vars

\* the sixth accepted call, on a session completed by the fifth: twelve messages
\* and the model's text as the response
C20_Witness ==
    \E k \in Keys :
        /\ LastChat
        /\ LastId = JStr(k)
        /\ sessions[k] # 0
        /\ heap[sessions[k]].completed
        /\ Len(heap[sessions[k]].messages) = 12
        /\ heap[sessions[k]].messages[11] = [role |-> "user", content |-> "I feel sad"]
        /\ req[1].resp = Response(200, "response", "I hear you.", JStr(k))
        /\ Len(req[1].calls) = 1

====
